---------------------------- MODULE Spec2Model ----------------------------
(***************************************************************************)
(* State-machine model of the X plugin scripts:                            *)
(*   scripts/x-api.py        (credential load, token refresh, API calls)   *)
(*   scripts/oauth-server.py (PKCE authorization flow, callback handler)   *)
(*                                                                         *)
(* Text (the settings file, its lines, the values of the settings dict)    *)
(* is a sequence of atoms.  An atom is either one of the character groups  *)
(* the code looks for ("---", newline, blank, ":", the two quotes) or a    *)
(* maximal run of other characters, or a decimal numeral.  The string      *)
(* functions of the code (split, strip, partition, startswith, join) are   *)
(* operators on such sequences.                                            *)
(***************************************************************************)
EXTENDS Integers, Sequences, FiniteSets, TLC

----------------------------------------------------------------------------
(* Atoms *)

T(s) == [k |-> "t", s |-> s, n |-> 0]
N(n) == [k |-> "n", s |-> "", n |-> n]

DELIM == T("---")
NL    == T("\n")
SP    == T(" ")
COLON == T(":")
DQ    == T("\"")
SQ    == T("'")

Whitespace == {SP, NL}

Range(s) == {s[i] : i \in 1..Len(s)}

----------------------------------------------------------------------------
(* Python string functions *)

\* str.split(sep): the texts between the occurrences of sep
Split(s, sep) ==
    LET at == {i \in 1..Len(s) : s[i] = sep}
        n  == Cardinality(at)
        \* the position of the k-th occurrence
        pos(k) == CHOOSE i \in at : Cardinality({j \in at : j < i}) = k - 1
        first(k) == IF k = 1 THEN 1 ELSE pos(k - 1) + 1
        last(k)  == IF k = n + 1 THEN Len(s) ELSE pos(k) - 1
    IN  [k \in 1..(n + 1) |-> SubSeq(s, first(k), last(k))]

RECURSIVE Join(_, _)
\* sep.join(parts)
Join(parts, sep) ==
    IF Len(parts) = 0 THEN <<>>
    ELSE IF Len(parts) = 1 THEN parts[1]
    ELSE parts[1] \o <<sep>> \o Join(Tail(parts), sep)

\* str.strip(chars): drop the leading and trailing atoms that are in W
StripSet(s, W) ==
    LET keep == {i \in 1..Len(s) : s[i] \notin W}
    IN  IF keep = {} THEN <<>>
        ELSE LET lo == CHOOSE i \in keep : \A j \in keep : i <= j
                 hi == CHOOSE i \in keep : \A j \in keep : j <= i
             IN  SubSeq(s, lo, hi)

\* str.strip()
Strip(s) == StripSet(s, Whitespace)

\* str.startswith(prefix)
StartsWith(s, prefix) ==
    /\ Len(s) >= Len(prefix)
    /\ SubSeq(s, 1, Len(prefix)) = prefix

\* str.partition(sep): the text before and after the first sep
PartitionAt(s, sep) ==
    LET at == {i \in 1..Len(s) : s[i] = sep}
    IN  IF at = {} THEN [head |-> s, found |-> FALSE, tail |-> <<>>]
        ELSE LET p == CHOOSE i \in at : \A j \in at : i <= j
             IN  [head |-> SubSeq(s, 1, p - 1), found |-> TRUE,
                  tail |-> SubSeq(s, p + 1, Len(s))]

\* dict.get(key, default)
Get(d, key, default) == IF key \in DOMAIN d THEN d[key] ELSE default

\* a key of the settings dict
K(name) == <<T(name)>>


\* an opaque string issued by a server or a random source ("at1", "rt2", ...)
Tok(kind, i) == [k |-> "t", s |-> kind, n |-> i]

\* settings[key] = value
DictSet(d, key, value) ==
    [x \in (DOMAIN d) \cup {key} |-> IF x = key THEN value ELSE d[x]]

EmptyDict == [x \in {} |-> <<>>]

\* int(text) of a decimal numeral; the texts of the model's expiry values
\* are numerals (as save_settings and refresh_access_token write them)
IntOf(text) == Strip(text)[1].n

\* str(n)
StrOf(n) == <<N(n)>>

----------------------------------------------------------------------------
(* Program constants *)

RefreshMargin    == 300
DefaultExpiresIn == 7200
MaxImages        == 4
MaxMediaBytes    == 5 * 1024 * 1024

(* Bounds of the model *)

\* clock readings per second: time.time() is a float, int(time.time())
\* its floor
TicksPerSecond == 2
\* the second (epoch) at which a run starts
StartSecond    == 1000
\* how many clock ticks may pass in a run
MaxTicks       == 1

Secs(t) == t \div TicksPerSecond

----------------------------------------------------------------------------
(* x-api.py: load_settings *)

\* frontmatter.strip().split("\n")
FrontLines(frontmatter) == Split(Strip(frontmatter), NL)

\* key.strip() of line.partition(":")
LineKey(line) == Strip(PartitionAt(Strip(line), COLON).head)

\* value.strip().strip('"').strip("'")
LineValue(line) ==
    StripSet(StripSet(Strip(PartitionAt(Strip(line), COLON).tail), {DQ}), {SQ})

\* the settings dict built from the frontmatter: a later line of a key
\* overrides an earlier one
ParseSettings(content) ==
    LET lines == FrontLines(Split(content, DELIM)[2])
        \* the dict after the first i lines
        D[i \in 0..Len(lines)] ==
            IF i = 0 THEN EmptyDict
            ELSE IF COLON \in Range(lines[i])
            THEN DictSet(D[i - 1], LineKey(lines[i]), LineValue(lines[i]))
            ELSE D[i - 1]
    IN  D[Len(lines)]

\* (mutant) client_secret is not required
RequiredKeysWithoutSecret == {K("access_token"), K("client_id")}

RequiredKeys == {K("access_token"), K("client_id"), K("client_secret")}

\* how load_settings ends on a settings file
LoadOutcome(fileExists, content) ==
    IF ~fileExists THEN "not_found"
    ELSE IF ~StartsWith(content, <<DELIM>>) THEN "invalid_format"
    ELSE LET d == ParseSettings(content)
         IN  IF \E key \in RequiredKeys : key \notin DOMAIN d \/ d[key] = <<>>
             THEN "missing_key"
             ELSE "ok"

----------------------------------------------------------------------------
(* x-api.py: refresh_access_token, the rewrite of the settings file *)

IsLineOf(line, name) == StartsWith(Strip(line), <<T(name), COLON>>)

RefreshLine(line, new_access, new_refresh, expires_at) ==
    IF IsLineOf(line, "access_token")
    THEN <<T("access_token"), COLON, SP, DQ>> \o new_access \o <<DQ>>
    ELSE IF IsLineOf(line, "refresh_token")
    THEN <<T("refresh_token"), COLON, SP, DQ>> \o new_refresh \o <<DQ>>
    ELSE IF IsLineOf(line, "token_expires_at")
    THEN <<T("token_expires_at"), COLON, SP>> \o StrOf(expires_at)
    ELSE line

\* "---".join(parts[2:])
RestOf(parts) == Join(SubSeq(parts, 3, Len(parts)), DELIM)

\* if len(parts) >= 3: whether the file is rewritten at all
WritesFile(content) == Len(Split(content, DELIM)) >= 3

RefreshContent(content, new_access, new_refresh, expires_at) ==
    LET parts == Split(content, DELIM)
    IN  IF WritesFile(content)
        THEN LET lines == FrontLines(parts[2])
                 new_lines == [i \in 1..Len(lines) |->
                     RefreshLine(lines[i], new_access, new_refresh, expires_at)]
             IN  <<DELIM, NL>> \o Join(new_lines, NL) \o <<NL, DELIM>>
                     \o RestOf(parts)
        ELSE content

\* (mutant) the dict without the new token_expires_at
RefreshSettingsKeepsExpiry(settings, new_access, new_refresh, expires_at) ==
    DictSet(DictSet(settings,
        K("access_token"), new_access),
        K("refresh_token"), new_refresh)

\* the settings dict as refresh_access_token returns it
RefreshSettings(settings, new_access, new_refresh, expires_at) ==
    DictSet(DictSet(DictSet(settings,
        K("access_token"), new_access),
        K("refresh_token"), new_refresh),
        K("token_expires_at"), StrOf(expires_at))

----------------------------------------------------------------------------
(* oauth-server.py: save_settings, the document it writes *)

QuotedLine(name, value) == <<T(name), COLON, SP, DQ>> \o value \o <<DQ, NL>>

SavedContent(client_id, client_secret, access_token, refresh_token, user_id, username, display_name, expires_at) ==
    <<DELIM, NL>>
    \o QuotedLine("client_id", client_id)
    \o QuotedLine("client_secret", client_secret)
    \o QuotedLine("access_token", access_token)
    \o QuotedLine("refresh_token", refresh_token)
    \o QuotedLine("user_id", user_id)
    \o QuotedLine("username", username)
    \o QuotedLine("display_name", display_name)
    \o <<T("token_expires_at"), COLON, SP>> \o StrOf(expires_at) \o <<NL>>
    \o <<DELIM, NL, NL, T("# X Plugin Settings"), NL, NL>>
    \o <<T("Authenticated as **")>> \o display_name \o <<T("** (@")>>
    \o username \o <<T(", ID"), COLON, SP>> \o user_id \o <<T(")."), NL, NL>>
    \o <<T("Access token expires at"), COLON, SP,
         Tok("localtime", expires_at), NL, NL>>
    \o <<T("Access tokens expire every 2 hours."), NL>>
    \o <<T("Re-run /x"), COLON, T("setup if refresh fails."), NL>>

----------------------------------------------------------------------------
(* The settings files a run may start from *)

Txt(s) == <<T(s)>>

ClientId     == Txt("cid")
ClientSecret == Txt("sec")
UserId       == Txt("42")
Username     == Txt("al")
PlainName    == <<T("Al"), SP, T("Eng")>>
\* a profile name with three dashes in it
DashedName   == <<T("Al"), SP, DELIM, SP, T("Eng")>>
OldAccess    == <<Tok("at", 0)>>
OldRefresh   == <<Tok("rt", 0)>>

\* stored expiry values: expired, at the refresh margin of the start
\* second, one second after it
StoredExpiries ==
    {StartSecond - 1, StartSecond + RefreshMargin,
     StartSecond + RefreshMargin + 1}

\* files as save_settings writes them (the refresh token is "" when the
\* token endpoint issued none)
SavedFiles ==
    {SavedContent(ClientId, ClientSecret, OldAccess, rt, UserId, Username,
                  dn, e) :
        rt \in {OldRefresh, <<>>}, dn \in {PlainName, DashedName},
        e \in StoredExpiries}

\* the metadata lines of a file edited by hand: a comment, an indented
\* unknown key, optional token lines, a blank before the colon of the
\* expiry line when spaced
EditedLines(hasRefresh, hasExpiry, spaced, e) ==
    QuotedLine("client_id", ClientId)
    \o <<T("# edited by hand"), NL>>
    \o QuotedLine("client_secret", ClientSecret)
    \o QuotedLine("access_token", OldAccess)
    \o (IF hasRefresh THEN QuotedLine("refresh_token", OldRefresh) ELSE <<>>)
    \o <<SP, SP>> \o QuotedLine("theme", Txt("dark"))
    \o QuotedLine("username", Username)
    \o (IF hasExpiry
        THEN <<T("token_expires_at")>> \o (IF spaced THEN <<SP>> ELSE <<>>)
                 \o <<COLON, SP>> \o StrOf(e) \o <<NL>>
        ELSE <<>>)

\* the text after the metadata block, with a horizontal rule in it
EditedRest == <<NL, T("# Notes"), NL, DELIM, NL, T("keep me"), NL>>

EditedFiles ==
    {<<DELIM, NL>> \o EditedLines(hr, he, sp, e)
        \o (IF closed THEN <<DELIM>> \o EditedRest ELSE <<>>) :
        hr \in BOOLEAN, he \in BOOLEAN, sp \in BOOLEAN, closed \in BOOLEAN,
        e \in {0, StartSecond - 1, StartSecond + RefreshMargin}}

\* files load_settings rejects
RejectedFiles ==
    {<<T("client_id"), COLON, SP>> \o ClientId \o <<NL>>,
     <<DELIM, NL>> \o QuotedLine("client_id", ClientId)
        \o QuotedLine("client_secret", ClientSecret)
        \o QuotedLine("access_token", <<>>) \o <<DELIM, NL>>,
     <<DELIM, NL>> \o QuotedLine("client_id", ClientId)
        \o QuotedLine("access_token", OldAccess)
        \o QuotedLine("refresh_token", OldRefresh) \o <<DELIM, NL>>}

InitialFiles == SavedFiles \cup EditedFiles \cup RejectedFiles

\* a saved file whose token has expired, one whose token is fresh
ExpiredFile ==
    SavedContent(ClientId, ClientSecret, OldAccess, OldRefresh, UserId,
                 Username, PlainName, StartSecond - 1)
FreshFile ==
    SavedContent(ClientId, ClientSecret, OldAccess, OldRefresh, UserId,
                 Username, PlainName, StartSecond + RefreshMargin + 1)

\* the files every combination of arguments is run against
CoreFiles == {ExpiredFile, FreshFile}

\* the files an authorization flow may find in place
FlowInitialFiles == {ExpiredFile} \cup RejectedFiles

----------------------------------------------------------------------------
(* State *)

VARIABLES
    store,       \* the text of the settings file (SETTINGS_PATH)
    fileExists,  \* whether the settings file exists
    now,         \* the clock, in ticks
    ticks,       \* ticks passed since the start of the run
    pc,          \* where the process is
    cmd,         \* the command of this invocation
    args,        \* its arguments: text_file and the media files
    settings,    \* the settings dict of x-api.py
    net,         \* the requests sent so far, in order
    uploaded,    \* number of media files uploaded so far
    exitCode,    \* the exit code, once pc = "exit"
    err,         \* the error reported, "" if none
    flow,        \* oauth-server.py: the state of run_oauth_flow
    inbox,       \* oauth-server.py: the requests waiting at the server socket
    local,       \* the step-wise file write of the shared-file specification
    hist         \* history: the store, dict, clock, number of token requests
                 \* and last token response (prior) at the entry of the last
                 \* ensure_valid_token / refresh_access_token call, the dict
                 \* the last such call returned, how many calls of each were
                 \* made, the last token response a refresh received and
                 \* whether that refresh rewrote the file

vars == <<store, fileExists, now, ticks, pc, cmd, args, settings, net,
          uploaded, exitCode, err, flow, inbox, local, hist>>

\* more bounds: how long the token endpoint may take to answer (ticks)
MaxLatency == 1

\* how many requests may reach the listener in one flow
MaxRequests == 2

(* media files and arguments *)

SmallFile   == [exists |-> TRUE, size |-> 1024]
LimitFile   == [exists |-> TRUE, size |-> MaxMediaBytes]
BigFile     == [exists |-> TRUE, size |-> MaxMediaBytes + 1]
MissingFile == [exists |-> FALSE, size |-> 0]

ImageLists ==
    {<<SmallFile>>, <<SmallFile, LimitFile>>, <<MissingFile>>,
     <<SmallFile, BigFile>>,
     [i \in 1..MaxImages |-> SmallFile],
     [i \in 1..(MaxImages + 1) |-> SmallFile],
     [i \in 1..(MaxImages + 1) |-> IF i = 1 THEN MissingFile ELSE BigFile]}

ArgsOf(c) ==
    IF c = "post-text"
    THEN {[text_file |-> t, images |-> <<>>] : t \in {"none", "ok", "missing"}}
    ELSE IF c = "post-image"
    THEN {[text_file |-> t, images |-> l] :
             t \in {"none", "missing"}, l \in ImageLists}
    ELSE IF c = "upload-media"
    THEN {[text_file |-> "none", images |-> <<f>>] :
             f \in {SmallFile, BigFile, MissingFile}}
    ELSE {[text_file |-> "none", images |-> <<>>]}

\* one plain set of arguments per command
BasicArgs(c) ==
    IF c = "post-image"
    THEN {[text_file |-> "none", images |-> <<SmallFile, LimitFile>>]}
    ELSE IF c = "upload-media"
    THEN {[text_file |-> "none", images |-> <<SmallFile>>]}
    ELSE {[text_file |-> "none", images |-> <<>>]}

ApiCommands ==
    {"check-auth", "refresh-token", "post-text", "post-image", "upload-media"}

(* requests *)

Request(ep, cred, aux, ok) ==
    [ep |-> ep, cred |-> cred, aux |-> aux, ok |-> ok]

Calls(ep) == {i \in 1..Len(net) : net[i].ep = ep}

ApiEndpoints == {"upload", "post"}

(* oauth-server.py state, filled in by run_oauth_flow *)

NoResult == [none |-> TRUE]

NoFlow == [expected_state |-> <<>>, code_verifier |-> <<>>,
           auth_result |-> NoResult, status |-> 0, request |-> EmptyDict,
           token_data |-> EmptyDict, profile |-> EmptyDict,
           listener |-> "idle", handled |-> 0, reported |-> EmptyDict,
           saved |-> FALSE]

\* nothing is being written
NoLocal == [pending |-> <<>>, returned |-> EmptyDict, nextpc |-> "",
            others |-> 0, late |-> FALSE]

NoHist == [store |-> <<>>, settings |-> EmptyDict, now |-> 0, calls |-> 0,
           prior |-> EmptyDict, returned |-> EmptyDict, checks |-> 0,
           refreshes |-> 0, token_data |-> EmptyDict, wrote |-> FALSE]

Init ==
    /\ cmd \in ApiCommands \cup {"oauth"}
    /\ \/ /\ fileExists = TRUE
          /\ \/ /\ store \in IF cmd = "oauth" THEN FlowInitialFiles
                               ELSE InitialFiles
                /\ args \in BasicArgs(cmd)
             \/ /\ store \in CoreFiles
                /\ args \in ArgsOf(cmd)
       \/ /\ fileExists = FALSE
          /\ store = <<>>
          /\ args \in BasicArgs(cmd)
    /\ now = StartSecond * TicksPerSecond
    /\ ticks = 0
    /\ pc = IF cmd = "oauth" THEN "start" ELSE "load"
    /\ settings = EmptyDict
    /\ net = <<>>
    /\ uploaded = 0
    /\ exitCode = 0
    /\ err = ""
    /\ flow = NoFlow
    /\ inbox = <<>>
    /\ local = NoLocal
    /\ hist = NoHist

\* sys.exit(1) after an error message
Fail(e) ==
    /\ pc' = "exit"
    /\ exitCode' = 1
    /\ err' = e

\* the positions at which the next step reads the clock
ClockReaders == {"ensure", "refresh", "check_auth", "save"}

\* time passes
Tick ==
    /\ pc \in ClockReaders
    /\ ticks < MaxTicks
    /\ now' = now + 1
    /\ ticks' = ticks + 1
    /\ UNCHANGED <<store, fileExists, pc, cmd, args, settings, net, uploaded,
                   exitCode, err, flow, hist>>
    /\ UNCHANGED <<inbox, local>>

----------------------------------------------------------------------------
(* x-api.py: the commands *)

\* (mutant) cmd_upload_media without its ensure_valid_token call
AfterLoadUncheckedUpload(c) ==
    IF c = "check-auth" THEN "check_auth"
    ELSE IF c = "refresh-token" THEN "refresh"
    ELSE IF c = "upload-media" THEN "upload"
    ELSE "ensure"

\* where a command goes after load_settings
AfterLoad(c) ==
    IF c = "check-auth" THEN "check_auth"
    ELSE IF c = "refresh-token" THEN "refresh"
    ELSE "ensure"

\* settings = load_settings()
LoadSettings ==
    /\ pc = "load"
    /\ LET outcome == LoadOutcome(fileExists, store)
       IN  IF outcome = "ok"
           THEN /\ settings' = ParseSettings(store)
                /\ pc' = AfterLoad(cmd)
                /\ UNCHANGED <<exitCode, err>>
           ELSE /\ Fail(outcome)
                /\ UNCHANGED settings
    /\ UNCHANGED <<store, fileExists, now, ticks, cmd, args, net, uploaded,
                   flow, hist>>
    /\ UNCHANGED <<inbox, local>>

\* what the token endpoint may answer to the i-th token request: a new
\* access token, a new refresh token or none, an expires_in or none
ExpiresInValues == {RefreshMargin - 1, RefreshMargin, RefreshMargin + 1}

TokenData(i, rotate, withExpiry, expires_in) ==
    LET a == [access_token |-> <<Tok("at", i)>>]
        b == IF rotate THEN DictSet(a, "refresh_token", <<Tok("rt", i)>>)
             ELSE a
    IN  IF withExpiry THEN DictSet(b, "expires_in", expires_in) ELSE b

TokenResponses(i) ==
    {TokenData(i, r, TRUE, e) : r \in BOOLEAN, e \in ExpiresInValues}
    \cup {TokenData(i, r, FALSE, 0) : r \in BOOLEAN}

\* token_data.get("expires_in", 7200)
ExpiresInOf(token_data) == Get(token_data, "expires_in", DefaultExpiresIn)

\* token_data.get("refresh_token", refresh_token)
NewRefreshOf(token_data, refresh_token) ==
    Get(token_data, "refresh_token", refresh_token)

\* (mutant) the rejection is reported and the command goes on
RefreshRejectedGoesOn(nextpc) ==
    /\ pc' = nextpc
    /\ UNCHANGED <<store, fileExists, settings, now, exitCode, err>>

\* the except branch of refresh_access_token: report and sys.exit(1)
RefreshRejected(nextpc) ==
    /\ Fail("token_refresh_failed")
    /\ UNCHANGED <<store, fileExists, settings, now>>

\* refresh_access_token(settings), called with the history record h of the
\* call; the process goes on at nextpc when it returns
RefreshAccessToken(nextpc, h) ==
    LET refresh_token == Get(settings, K("refresh_token"), <<>>)
        i == Cardinality(Calls("token")) + 1
    IN  IF refresh_token = <<>>
        THEN /\ Fail("no_refresh_token")
             /\ hist' = h
             /\ UNCHANGED <<store, fileExists, settings, now, net>>
        ELSE \/ /\ net' = Append(net,
                        Request("token", refresh_token, <<>>, FALSE))
                /\ RefreshRejected(nextpc)
                /\ hist' = h
             \/ \E td \in TokenResponses(i), d \in 0..MaxLatency :
                    LET new_access  == td.access_token
                        new_refresh == NewRefreshOf(td, refresh_token)
                        expires_at  == Secs(now + d) + ExpiresInOf(td)
                        returned    == RefreshSettings(settings, new_access,
                                           new_refresh, expires_at)
                    IN  /\ net' = Append(net,
                                Request("token", refresh_token, <<>>, TRUE))
                        /\ now' = now + d
                        /\ store' = RefreshContent(store, new_access,
                                        new_refresh, expires_at)
                        /\ settings' = returned
                        /\ hist' = [h EXCEPT !.token_data = td,
                                             !.returned = returned,
                                             !.wrote = WritesFile(store)]
                        /\ pc' = nextpc
                        /\ UNCHANGED <<fileExists, exitCode, err>>

\* (mutant) >= in place of >
NeedsRefreshAtMargin(expires_at, t) ==
    /\ expires_at # 0
    /\ t >= (expires_at - RefreshMargin) * TicksPerSecond

\* expires_at and time.time() > (expires_at - 300), at clock reading t
NeedsRefresh(expires_at, t) ==
    /\ expires_at # 0
    /\ t > (expires_at - RefreshMargin) * TicksPerSecond

\* int(settings.get("token_expires_at", 0))
ExpiresAtOf(d) == IntOf(Get(d, K("token_expires_at"), StrOf(0)))

\* where a posting command goes after ensure_valid_token
AfterEnsure(c) == IF c = "upload-media" THEN "upload" ELSE "text"

\* the history record at the entry of a call
Entered(isCheck, isRefresh) ==
    [hist EXCEPT !.store = store, !.settings = settings, !.now = now,
                 !.calls = Cardinality(Calls("token")),
                 !.prior = hist.token_data,
                 !.checks = @ + (IF isCheck THEN 1 ELSE 0),
                 !.refreshes = @ + (IF isRefresh THEN 1 ELSE 0)]

\* settings = ensure_valid_token(settings)
EnsureValidToken ==
    /\ pc = "ensure"
    /\ IF NeedsRefresh(ExpiresAtOf(settings), now)
       THEN RefreshAccessToken(AfterEnsure(cmd), Entered(TRUE, TRUE))
       ELSE /\ pc' = AfterEnsure(cmd)
            /\ hist' = [Entered(TRUE, FALSE) EXCEPT !.returned = settings]
            /\ UNCHANGED <<store, fileExists, settings, now, net, exitCode,
                           err>>
    /\ UNCHANGED <<ticks, cmd, args, uploaded, flow>>
    /\ UNCHANGED <<inbox, local>>

\* ensure_valid_token called a second time, at once, on
\* the dict the first call returned; the driver stops after the call
EnsureAgain ==
    /\ pc \in {"text", "upload"}
    /\ hist.checks = 1
    /\ IF NeedsRefresh(ExpiresAtOf(settings), now)
       THEN RefreshAccessToken("exit", Entered(TRUE, TRUE))
       ELSE /\ pc' = "exit"
            /\ hist' = [Entered(TRUE, FALSE) EXCEPT !.returned = settings]
            /\ UNCHANGED <<store, fileExists, settings, now, net, exitCode,
                           err>>
    /\ UNCHANGED <<ticks, cmd, args, uploaded, flow>>
    /\ UNCHANGED <<inbox, local>>

\* cmd_refresh_token: settings = refresh_access_token(settings), then print
ManualRefresh ==
    /\ pc = "refresh"
    /\ RefreshAccessToken("exit", Entered(FALSE, TRUE))
    /\ UNCHANGED <<ticks, cmd, args, uploaded, flow>>
    /\ UNCHANGED <<inbox, local>>

\* cmd_check_auth: print the status; no request, no write
CheckAuth ==
    /\ pc = "check_auth"
    /\ pc' = "exit"
    /\ UNCHANGED <<store, fileExists, now, ticks, cmd, args, settings, net,
                   uploaded, exitCode, err, flow, hist>>
    /\ UNCHANGED <<inbox, local>>

\* text = resolve_text(args)
ResolveText ==
    /\ pc = "text"
    /\ IF args.text_file = "missing"
       THEN Fail("text_file_not_found")
       ELSE /\ pc' = IF cmd = "post-image" THEN "count" ELSE "post"
            /\ UNCHANGED <<exitCode, err>>
    /\ UNCHANGED <<store, fileExists, now, ticks, cmd, args, settings, net,
                   uploaded, flow, hist>>
    /\ UNCHANGED <<inbox, local>>

\* (mutant) cmd_post_image without the count check
CheckImageCountSkipped ==
    /\ pc = "count"
    /\ pc' = "upload"
    /\ UNCHANGED <<store, fileExists, now, ticks, cmd, args, settings, net,
                   uploaded, exitCode, err, flow, hist, inbox, local>>

\* cmd_post_image: if len(args.images) > 4
CheckImageCount ==
    /\ pc = "count"
    /\ IF Len(args.images) > MaxImages
       THEN Fail("too_many_images")
       ELSE /\ pc' = "upload"
            /\ UNCHANGED <<exitCode, err>>
    /\ UNCHANGED <<store, fileExists, now, ticks, cmd, args, settings, net,
                   uploaded, flow, hist>>
    /\ UNCHANGED <<inbox, local>>

\* the bearer token of an API call made with the dict d
BearerOf(d) == d[K("access_token")]

\* upload_media(settings["access_token"], path) of the next media file
UploadMedia ==
    /\ pc = "upload"
    /\ LET file == args.images[uploaded + 1]
       IN  IF ~file.exists
           THEN /\ Fail("file_not_found")
                /\ UNCHANGED <<net, uploaded>>
           ELSE IF file.size > MaxMediaBytes
           THEN /\ Fail("file_too_large")
                /\ UNCHANGED <<net, uploaded>>
           ELSE \/ /\ net' = Append(net,
                        Request("upload", BearerOf(settings), <<>>, FALSE))
                   /\ Fail("media_upload_failed")
                   /\ UNCHANGED uploaded
                \/ /\ net' = Append(net,
                        Request("upload", BearerOf(settings), <<>>, TRUE))
                   /\ uploaded' = uploaded + 1
                   /\ pc' = IF uploaded + 1 < Len(args.images) THEN "upload"
                            ELSE IF cmd = "post-image" THEN "post"
                            ELSE "exit"
                   /\ UNCHANGED <<exitCode, err>>
    /\ UNCHANGED <<store, fileExists, now, ticks, cmd, args, settings, flow,
                   hist>>
    /\ UNCHANGED <<inbox, local>>

\* create_post(settings["access_token"], text, media_ids)
CreatePost ==
    /\ pc = "post"
    /\ \/ /\ net' = Append(net,
                Request("post", BearerOf(settings), <<>>, FALSE))
          /\ Fail("api_request_failed")
       \/ /\ net' = Append(net,
                Request("post", BearerOf(settings), <<>>, TRUE))
          /\ pc' = "exit"
          /\ UNCHANGED <<exitCode, err>>
    /\ UNCHANGED <<store, fileExists, now, ticks, cmd, args, settings,
                   uploaded, flow, hist>>
    /\ UNCHANGED <<inbox, local>>

----------------------------------------------------------------------------
(* oauth-server.py *)

ExpectedState == <<Tok("state", 1)>>
CodeVerifier  == <<Tok("verifier", 1)>>
AuthCode      == <<Tok("code", 1)>>

\* the requests that may reach the listener; a parameter that is absent
\* from the query is the empty text
CallbackRequests ==
    [method : {"GET", "POST"},
     path : {"/callback", "/favicon.ico"},
     code : {<<>>, AuthCode},
     state : {<<>>, ExpectedState, <<Tok("state", 2)>>},
     error : {<<>>, Txt("access_denied")},
     error_description : {<<>>, Txt("The user denied the request")}]

\* params.get(name, [default])[0]
ParamOr(value, default) == IF value = <<>> THEN default ELSE value

\* (mutant) do_GET without the state check
DoGetNoStateCheck(req, expected_state) ==
    IF req.code = <<>>
    THEN [status |-> 400,
          auth_result |->
              [error |-> ParamOr(req.error, Txt("unknown")),
               error_description |->
                   ParamOr(req.error_description, Txt("No details"))]]
    ELSE [status |-> 200, auth_result |-> [code |-> req.code]]

\* (mutant) do_GET that does not read the error parameters
DoGetIgnoresError(req, expected_state) ==
    IF req.code = <<>>
    THEN [status |-> 400,
          auth_result |-> [error |-> Txt("unknown"),
                           error_description |-> Txt("No details")]]
    ELSE IF req.state # expected_state
    THEN [status |-> 400, auth_result |-> [error |-> Txt("state_mismatch")]]
    ELSE [status |-> 200, auth_result |-> [code |-> req.code]]

\* OAuthCallbackHandler.do_GET: the response status and the result recorded
DoGet(req, expected_state) ==
    IF req.code = <<>>
    THEN [status |-> 400,
          auth_result |->
              [error |-> ParamOr(req.error, Txt("unknown")),
               error_description |->
                   ParamOr(req.error_description, Txt("No details"))]]
    ELSE IF req.state # expected_state
    THEN [status |-> 400, auth_result |-> [error |-> Txt("state_mismatch")]]
    ELSE [status |-> 200, auth_result |-> [code |-> req.code]]

\* OAuthCallbackHandler handles GET only: any other method is answered
\* 501 by the base class and records nothing
HandleOne(req, f) ==
    IF req.method = "GET"
    THEN [f EXCEPT !.status = DoGet(req, f.expected_state).status,
                   !.auth_result = DoGet(req, f.expected_state).auth_result,
                   !.request = req, !.handled = @ + 1]
    ELSE [f EXCEPT !.status = 501, !.request = req, !.handled = @ + 1]

\* run_oauth_flow up to webbrowser.open: state, PKCE pair, the server
StartFlow ==
    /\ pc = "start"
    /\ flow' = [flow EXCEPT !.expected_state = ExpectedState,
                            !.code_verifier = CodeVerifier,
                            !.listener = "listening"]
    /\ pc' = "listen"
    /\ UNCHANGED <<store, fileExists, now, ticks, cmd, args, settings, net,
                   uploaded, exitCode, err, hist>>
    /\ UNCHANGED <<inbox, local>>

\* the requests that may follow the first one
LaterRequests ==
    {[method |-> "GET", path |-> "/callback", code |-> c, state |-> st,
      error |-> e, error_description |-> <<>>] :
        c \in {<<>>, AuthCode}, st \in {ExpectedState}, e \in {<<>>}}
    \cup {[method |-> "GET", path |-> "/callback", code |-> <<Tok("code", 2)>>,
           state |-> st, error |-> <<>>, error_description |-> <<>>] :
             st \in {ExpectedState, <<Tok("state", 2)>>}}

\* a browser or another local program connects to the port and sends a
\* request; the socket is bound from HTTPServer(...) to server_close()
Arrive ==
    /\ cmd = "oauth"
    /\ flow.listener = "listening"
    /\ flow.handled + Len(inbox) < MaxRequests
    /\ \E req \in (IF inbox = <<>> THEN CallbackRequests
                    ELSE LaterRequests) :
           inbox' = Append(inbox, req)
    /\ UNCHANGED <<store, fileExists, now, ticks, pc, cmd, args, settings,
                   net, uploaded, exitCode, err, flow, local, hist>>

\* (mutant) the server keeps serving after the first request
HandleRequestAndServeOn ==
    /\ pc = "listen"
    /\ inbox # <<>>
    /\ flow' = HandleOne(Head(inbox), flow)
    /\ inbox' = Tail(inbox)
    /\ pc' = IF Tail(inbox) = <<>> THEN "closed" ELSE "listen"
    /\ UNCHANGED <<store, fileExists, now, ticks, cmd, args, settings, net,
                   uploaded, exitCode, err, hist, local>>

\* server.handle_request(), which waits until a request is there, then
\* server.server_close()
HandleRequest ==
    /\ pc = "listen"
    /\ inbox # <<>>
    /\ flow' = [HandleOne(Head(inbox), flow) EXCEPT !.listener = "closed"]
    /\ inbox' = Tail(inbox)
    /\ pc' = "closed"
    /\ UNCHANGED <<store, fileExists, now, ticks, cmd, args, settings, net,
                   uploaded, exitCode, err, hist>>
    /\ UNCHANGED local

\* (mutant) only a missing result stops the flow
FlowErrorOnlyNoResponse(result) ==
    IF result = NoResult THEN "no_response" ELSE ""

\* the error run_oauth_flow reports for a result, "" when it goes on
FlowError(result) ==
    IF result = NoResult THEN "no_response"
    ELSE IF "error" \in DOMAIN result THEN "authorization_failed"
    ELSE ""

\* the ERROR= line run_oauth_flow prints for a result
ReportOf(result) ==
    IF result = NoResult
    THEN [error |-> Txt("no_response"), error_description |-> <<>>]
    ELSE [error |-> Get(result, "error", Txt("unknown")),
          error_description |-> Get(result, "error_description", <<>>)]

\* result = server.auth_result; if not result or "error" in result: exit
CheckResult ==
    /\ pc = "closed"
    /\ IF FlowError(flow.auth_result) # ""
       THEN /\ Fail(FlowError(flow.auth_result))
            /\ flow' = [flow EXCEPT !.reported = ReportOf(flow.auth_result)]
       ELSE /\ pc' = "exchange"
            /\ UNCHANGED <<exitCode, err, flow>>
    /\ UNCHANGED <<store, fileExists, now, ticks, cmd, args, settings, net,
                   uploaded, hist>>
    /\ UNCHANGED <<inbox, local>>

\* token_data = exchange_code_for_token(code, ..., code_verifier); a
\* rejection is an HTTPError nobody catches
ExchangeCode ==
    /\ pc = "exchange"
    /\ \/ /\ net' = Append(net, Request("token", flow.auth_result.code,
                                        flow.code_verifier, FALSE))
          /\ Fail("token_exchange_failed")
          /\ UNCHANGED flow
       \/ \E td \in TokenResponses(1) :
             /\ net' = Append(net, Request("token", flow.auth_result.code,
                                           flow.code_verifier, TRUE))
             /\ flow' = [flow EXCEPT !.token_data = td]
             /\ pc' = "profile"
             /\ UNCHANGED <<exitCode, err>>
    /\ UNCHANGED <<store, fileExists, now, ticks, cmd, args, settings,
                   uploaded, hist>>
    /\ UNCHANGED <<inbox, local>>

\* what the profile endpoint may answer
Profiles ==
    {[id |-> UserId, username |-> Username, name |-> n] :
        n \in {PlainName, DashedName}}

\* (mutant) a failed profile fetch is swallowed and defaults are saved
FetchUserInfoFailureSaves ==
    /\ pc = "profile"
    /\ \/ /\ net' = Append(net, Request("profile",
                               flow.token_data.access_token, <<>>, FALSE))
          /\ flow' = [flow EXCEPT !.profile =
                         [id |-> <<>>, username |-> <<>>,
                          name |-> Txt("Unknown")]]
          /\ pc' = "save"
          /\ UNCHANGED <<exitCode, err>>
       \/ \E p \in Profiles :
             /\ net' = Append(net, Request("profile",
                                  flow.token_data.access_token, <<>>, TRUE))
             /\ flow' = [flow EXCEPT !.profile = p]
             /\ pc' = "save"
             /\ UNCHANGED <<exitCode, err>>
    /\ UNCHANGED <<store, fileExists, now, ticks, cmd, args, settings,
                   uploaded, hist>>
    /\ UNCHANGED <<inbox, local>>

\* user_id, username, display_name = fetch_user_info(access_token)
FetchUserInfo ==
    /\ pc = "profile"
    /\ \/ /\ net' = Append(net, Request("profile",
                               flow.token_data.access_token, <<>>, FALSE))
          /\ Fail("profile_fetch_failed")
          /\ UNCHANGED flow
       \/ \E p \in Profiles :
             /\ net' = Append(net, Request("profile",
                                  flow.token_data.access_token, <<>>, TRUE))
             /\ flow' = [flow EXCEPT !.profile = p]
             /\ pc' = "save"
             /\ UNCHANGED <<exitCode, err>>
    /\ UNCHANGED <<store, fileExists, now, ticks, cmd, args, settings,
                   uploaded, hist>>
    /\ UNCHANGED <<inbox, local>>

\* save_settings(...): the whole file is written anew
SaveSettings ==
    /\ pc = "save"
    /\ store' = SavedContent(ClientId, ClientSecret,
                    flow.token_data.access_token,
                    Get(flow.token_data, "refresh_token", <<>>),
                    flow.profile.id, flow.profile.username,
                    flow.profile.name,
                    Secs(now) + ExpiresInOf(flow.token_data))
    /\ fileExists' = TRUE
    /\ hist' = [hist EXCEPT !.store = store]
    /\ flow' = [flow EXCEPT !.saved = TRUE]
    /\ pc' = "exit"
    /\ UNCHANGED <<now, ticks, cmd, args, settings, net, uploaded, exitCode,
                   err>>
    /\ UNCHANGED <<inbox, local>>

----------------------------------------------------------------------------
(* The specification *)

Next ==
    \/ Tick
    \/ LoadSettings
    \/ EnsureValidToken
    \/ ManualRefresh
    \/ CheckAuth
    \/ ResolveText
    \/ CheckImageCount
    \/ UploadMedia
    \/ CreatePost
    \/ StartFlow
    \/ Arrive
    \/ HandleRequest
    \/ CheckResult
    \/ ExchangeCode
    \/ FetchUserInfo
    \/ SaveSettings

Spec == Init /\ [][Next]_vars

\* oauth-server.py alone: the steps of run_oauth_flow ...
FlowStep ==
    \/ StartFlow
    \/ HandleRequest
    \/ CheckResult
    \/ ExchangeCode
    \/ FetchUserInfo
    \/ SaveSettings

\* ... and what happens around it: time passes, requests arrive
NextFlow == FlowStep \/ Tick \/ Arrive

InitFlow == Init /\ cmd = "oauth"

\* the process keeps running: a step it can take is taken; nothing makes
\* a request arrive
SpecLive == InitFlow /\ [][NextFlow]_vars /\ WF_vars(FlowStep)

----------------------------------------------------------------------------
(* The settings file as a file: written in steps, shared with others *)

\* how many times another process rewrites the file during a command
MaxOtherWrites == 1

OtherUsername == <<T("zed")>>

\* another process re-reads the file and writes it back with a new
\* username line
OtherWrite(content) ==
    LET lines == Split(content, NL)
    IN  Join([i \in 1..Len(lines) |->
                 IF IsLineOf(lines[i], "username")
                 THEN <<T("username"), COLON, SP, DQ>> \o OtherUsername
                          \o <<DQ>>
                 ELSE lines[i]], NL)

OtherWriter ==
    /\ cmd # "oauth"
    /\ pc \in {"ensure", "refresh", "write"}
    /\ local.others < MaxOtherWrites
    /\ store' = OtherWrite(store)
    /\ local' = [local EXCEPT !.others = @ + 1, !.late = (pc = "write")]
    /\ UNCHANGED <<fileExists, now, ticks, pc, cmd, args, settings, net,
                   uploaded, exitCode, err, flow, inbox, hist>>

\* refresh_access_token from its token request to new_content: the file
\* is read and the new text is built, not yet written
ReadForRewrite ==
    /\ pc \in {"ensure", "refresh"}
    /\ pc = "ensure" => NeedsRefresh(ExpiresAtOf(settings), now)
    /\ Get(settings, K("refresh_token"), <<>>) # <<>>
    /\ WritesFile(store)
    /\ \E td \in TokenResponses(Cardinality(Calls("token")) + 1) :
          LET refresh_token == settings[K("refresh_token")]
              new_refresh == NewRefreshOf(td, refresh_token)
              expires_at  == Secs(now) + ExpiresInOf(td)
          IN  /\ net' = Append(net,
                      Request("token", refresh_token, <<>>, TRUE))
              /\ local' = [local EXCEPT
                      !.pending = RefreshContent(store, td.access_token,
                                      new_refresh, expires_at),
                      !.returned = RefreshSettings(settings, td.access_token,
                                      new_refresh, expires_at),
                      !.nextpc = IF pc = "ensure" THEN AfterEnsure(cmd)
                                 ELSE "exit"]
              /\ hist' = [Entered(pc = "ensure", TRUE) EXCEPT
                      !.token_data = td]
    /\ pc' = "write"
    /\ UNCHANGED <<store, fileExists, now, ticks, cmd, args, settings,
                   uploaded, exitCode, err, flow, inbox>>

\* SETTINGS_PATH.write_text(new_content) and the rest of the function
WriteFile ==
    /\ pc = "write"
    /\ store' = local.pending
    /\ settings' = local.returned
    /\ hist' = [hist EXCEPT !.returned = local.returned, !.wrote = TRUE]
    /\ pc' = local.nextpc
    /\ UNCHANGED <<fileExists, now, ticks, cmd, args, net, uploaded,
                   exitCode, err, flow, inbox, local>>

\* what a write_text that is cut short leaves: the file is truncated when
\* it is opened, and the text reaches it from its beginning
PartialWrites(content) == {<<>>, SubSeq(content, 1, Len(content) \div 2)}

\* the process is killed inside write_text of refresh_access_token
CrashInWrite ==
    /\ pc = "write"
    /\ store' \in PartialWrites(local.pending)
    /\ pc' = "exit"
    /\ exitCode' = 137
    /\ err' = "killed"
    /\ UNCHANGED <<fileExists, now, ticks, cmd, args, settings, net,
                   uploaded, flow, inbox, local, hist>>

\* the process is killed inside write_text of save_settings
CrashInSave ==
    /\ pc = "save"
    /\ LET content == SavedContent(ClientId, ClientSecret,
                          flow.token_data.access_token,
                          Get(flow.token_data, "refresh_token", <<>>),
                          flow.profile.id, flow.profile.username,
                          flow.profile.name,
                          Secs(now) + ExpiresInOf(flow.token_data))
       IN  /\ store' \in PartialWrites(content)
           /\ local' = [local EXCEPT !.pending = content]
    /\ fileExists' = TRUE
    /\ hist' = [hist EXCEPT !.store = store]
    /\ pc' = "exit"
    /\ exitCode' = 137
    /\ err' = "killed"
    /\ UNCHANGED <<now, ticks, cmd, args, settings, net, uploaded, flow,
                   inbox>>

NextShared ==
    \/ Next
    \/ OtherWriter
    \/ ReadForRewrite
    \/ WriteFile
    \/ CrashInWrite
    \/ CrashInSave

SpecShared == Init /\ [][NextShared]_vars

----------------------------------------------------------------------------

\* the commands, with ensure_valid_token called twice in succession
NextTwice == Next \/ EnsureAgain

SpecTwice == Init /\ [][NextTwice]_vars

----------------------------------------------------------------------------
(* Properties *)

AccessKey  == K("access_token")
RefreshKey == K("refresh_token")
ExpiryKey  == K("token_expires_at")
TokenKeys  == {AccessKey, RefreshKey, ExpiryKey}

ApiCalls == Calls("upload") \cup Calls("post")

\* an ensure_valid_token call of a command has been made
Checked == cmd # "oauth" /\ hist.checks >= 1

\* a refresh_access_token call of a command has returned
Refreshed == cmd # "oauth" /\ hist.token_data # EmptyDict

\* the expiry the last call was entered with: now > token_expires_at - 300
DueAtEntry ==
    /\ ExpiresAtOf(hist.settings) # 0
    /\ hist.now > (ExpiresAtOf(hist.settings) - RefreshMargin) * TicksPerSecond

\* C1: ensure_valid_token enters refresh_access_token if and only if
\* token_expires_at is set (non-zero) and now > token_expires_at - 300; the
\* token endpoint is called only in that case; in every other case (the
\* clock exactly at token_expires_at - 300, the expiry missing or 0) the
\* call returns the dict it was given, sends no token request and leaves
\* the settings file as it was.
C1_RefreshIffDue ==
    (Checked /\ hist.checks = 1) =>
        /\ (hist.refreshes = 1) <=> DueAtEntry
        /\ Calls("token") # {} => DueAtEntry
        /\ ~DueAtEntry =>
              /\ hist.returned = hist.settings
              /\ settings = hist.settings
              /\ Calls("token") = {}
              /\ store = hist.store

\* the call was made with the clock exactly at token_expires_at - 300 and
\* returned without a refresh
C1_Witness ==
    /\ Checked
    /\ ExpiresAtOf(hist.settings) # 0
    /\ hist.now = (ExpiresAtOf(hist.settings) - RefreshMargin) * TicksPerSecond
    /\ hist.refreshes = 0
    /\ hist.returned = hist.settings
    /\ pc = "text"

\* C2: in every posting command, every upload and create-post request is
\* sent after the ensure_valid_token check of this invocation (and after
\* any token request of it), and its bearer token is the access_token of
\* the dict that check returned.
C2_CheckedBeforeApiCall ==
    \A i \in ApiCalls :
        /\ Checked
        /\ hist.returned # EmptyDict
        /\ net[i].cred = hist.returned[AccessKey]
        /\ \A j \in Calls("token") : j < i

\* uploads and a post were sent after a refresh, with the new token
C2_Witness ==
    /\ Calls("token") # {}
    /\ Calls("upload") # {}
    /\ Calls("post") # {}
    /\ \A i \in ApiCalls : net[i].cred = hist.token_data.access_token

\* the text after the metadata block, <<>> when the block is not closed
TextAfterBlock(content) ==
    LET parts == Split(content, DELIM)
    IN  IF Len(parts) >= 3 THEN Join(SubSeq(parts, 3, Len(parts)), DELIM)
        ELSE <<>>

\* the lines of the metadata block that are not token lines, each without
\* its surrounding blanks
OtherLines(content) ==
    LET lines == FrontLines(Split(content, DELIM)[2])
        F[i \in 0..Len(lines)] ==
            IF i = 0 THEN <<>>
            ELSE IF LineKey(lines[i]) \in TokenKeys THEN F[i - 1]
            ELSE Append(F[i - 1], Strip(lines[i]))
    IN  F[Len(lines)]

\* the entries of the settings file other than the three token entries
OtherEntries(content) ==
    LET d == ParseSettings(content)
    IN  [key \in (DOMAIN d) \ TokenKeys |-> d[key]]

\* C3, as load_settings and refresh_access_token read the file (split at
\* every "---"): a successful refresh leaves every entry other than
\* access_token, refresh_token and token_expires_at, every other line of
\* the part taken for the metadata block and the text after that part as
\* they were before refresh_access_token.
C3_RefreshFrame ==
    Refreshed =>
        /\ OtherEntries(store) = OtherEntries(hist.store)
        /\ OtherLines(store) = OtherLines(hist.store)
        /\ TextAfterBlock(store) = TextAfterBlock(hist.store)

\* a refresh rewrote a file that holds an unknown key, a comment line and
\* a horizontal rule in the text after the block
C3_Witness ==
    /\ Refreshed
    /\ hist.wrote
    /\ store # hist.store
    /\ K("theme") \in DOMAIN ParseSettings(store)
    /\ DELIM \in Range(TextAfterBlock(store))
    /\ ParseSettings(store)[AccessKey] = hist.token_data.access_token

\* the lines of the whole file that are neither blank nor token lines, each
\* without its surrounding blanks
KeptLines(content) ==
    LET lines == Split(content, NL)
        F[i \in 0..Len(lines)] ==
            IF i = 0 THEN <<>>
            ELSE IF \/ Strip(lines[i]) = <<>>
                    \/ IsLineOf(lines[i], "access_token")
                    \/ IsLineOf(lines[i], "refresh_token")
                    \/ IsLineOf(lines[i], "token_expires_at")
                 THEN F[i - 1]
            ELSE Append(F[i - 1], Strip(lines[i]))
    IN  F[Len(lines)]

\* C3, for the file as text: after a successful refresh every line of the
\* settings file other than the access_token, refresh_token and
\* token_expires_at lines (the display_name line, unknown lines, the text
\* after the block) reads as it did before the refresh.
C3_FileLinesKept ==
    Refreshed => KeptLines(store) = KeptLines(hist.store)

\* an entry of a dict: whether the key is there, and its value
Entry(d, key) == IF key \in DOMAIN d THEN <<TRUE, d[key]>> ELSE <<FALSE, <<>>>>

\* an ensure_valid_token or refresh_access_token call of a command returned
Returned == cmd # "oauth" /\ hist.returned # EmptyDict

\* C4: whenever ensure_valid_token or refresh_access_token returns, the
\* access_token, refresh_token and token_expires_at of the returned dict
\* are what a fresh load_settings of the settings file would give.
C4_ReturnedMatchesStore ==
    Returned =>
        \A key \in TokenKeys :
            Entry(hist.returned, key) = Entry(ParseSettings(store), key)

\* C5: the settings file never goes from one state to another in which one
\* of access_token and token_expires_at is the new value and the other is
\* not: a refresh that rewrites the file, and the save of the authorization
\* flow, store the new access token and its expiry together.
C5_UpdatedTogether ==
    /\ (Refreshed /\ hist.wrote) =>
          ((Entry(ParseSettings(store), AccessKey)
                = <<TRUE, hist.returned[AccessKey]>>)
           <=> (Entry(ParseSettings(store), ExpiryKey)
                = <<TRUE, hist.returned[ExpiryKey]>>))
    /\ (cmd = "oauth" /\ pc = "exit" /\ exitCode = 0) =>
          /\ Entry(ParseSettings(store), AccessKey)
                = <<TRUE, flow.token_data.access_token>>
          /\ Entry(ParseSettings(store), ExpiryKey)
                = <<TRUE, StrOf(Secs(now) + ExpiresInOf(flow.token_data))>>

\* the refresh token sent with the last token request
SentRefreshToken ==
    net[CHOOSE i \in Calls("token") : \A j \in Calls("token") : j <= i].cred

\* the refresh token a successful refresh must leave behind
ExpectedRefreshToken ==
    IF "refresh_token" \in DOMAIN hist.token_data
    THEN hist.token_data.refresh_token
    ELSE SentRefreshToken

\* C6: after a successful refresh the refresh_token of the returned dict
\* and of the settings file is the one the token endpoint issued, or, when
\* it issued none, the one that was sent with the refresh request.
C6_RefreshTokenKept ==
    Refreshed =>
        /\ Entry(hist.returned, RefreshKey) = <<TRUE, ExpectedRefreshToken>>
        /\ Entry(ParseSettings(store), RefreshKey)
              = <<TRUE, ExpectedRefreshToken>>

\* the token endpoint rejected a refresh of this invocation
RefreshWasRejected ==
    cmd # "oauth" /\ \E i \in Calls("token") : ~net[i].ok

\* C7: a refresh the token endpoint rejects is fatal: the endpoint was
\* called exactly once, the settings file is as it was before the attempt,
\* no upload or create-post request is sent, and the process has ended
\* with a non-zero exit code.
C7_RejectedRefreshIsFatal ==
    RefreshWasRejected =>
        /\ Cardinality(Calls("token")) = 1
        /\ store = hist.store
        /\ fileExists
        /\ ApiCalls = {}
        /\ pc = "exit"
        /\ exitCode # 0

\* a posting command whose refresh was rejected
C7_Witness ==
    /\ RefreshWasRejected
    /\ cmd = "post-image"
    /\ err = "token_refresh_failed"
    /\ hist.checks = 1

\* the second of two successive ensure_valid_token calls was made
CalledTwice == Checked /\ hist.checks = 2

\* the second call sent no token request and returned the dict it was given
SecondCallIdle ==
    /\ Cardinality(Calls("token")) = hist.calls
    /\ hist.returned = hist.settings
    /\ settings = hist.settings

\* C8 as claimed: a second ensure_valid_token call made at once on the
\* result of the first sends no token request and returns the same dict,
\* whatever expires_in the first call's refresh received.
C8_SecondCallAlwaysIdle == CalledTwice => SecondCallIdle

\* C8, amended: the same, when the first call did not refresh or its
\* refresh received an expires_in greater than 300 (7200 when omitted).
C8_SecondCallIdleWhenFresh ==
    (CalledTwice /\ (hist.prior = EmptyDict
                        \/ ExpiresInOf(hist.prior) > RefreshMargin))
        => SecondCallIdle

\* the first call refreshed with expires_in = 301 and the second was idle
C8_Witness ==
    /\ CalledTwice
    /\ "expires_in" \in DOMAIN hist.prior
    /\ hist.prior.expires_in = RefreshMargin + 1
    /\ SecondCallIdle
    /\ pc = "exit"

\* C9: when ensure_valid_token is called with token_expires_at = now - 1
\* and the token endpoint accepts the refresh, exactly one token request is
\* made and the token_expires_at in the settings file is the clock's
\* second plus expires_in (7200 when the response has none).
C9_ExpiredRefreshPersists ==
    (Checked /\ hist.checks = 1 /\ Refreshed
        /\ ExpiresAtOf(hist.settings) = Secs(hist.now) - 1) =>
        /\ Cardinality(Calls("token")) = 1
        /\ Entry(ParseSettings(store), ExpiryKey)
              = <<TRUE, StrOf(Secs(now) + ExpiresInOf(hist.token_data))>>

\* the listener handled a GET request whose state is not the expected one
StateMismatchHandled ==
    /\ cmd = "oauth"
    /\ flow.request # EmptyDict
    /\ flow.request.method = "GET"
    /\ flow.request.state # flow.expected_state

StateMismatchResult == [error |-> Txt("state_mismatch")]

----------------------------------------------------------------------------
(* The callback listener *)

\* the listener of this flow has handled its request
Handled == cmd = "oauth" /\ flow.handled >= 1

\* the result do_GET records for the request the listener handled
ResultOfHandled ==
    IF flow.request.method = "GET"
    THEN DoGet(flow.request, flow.expected_state).auth_result
    ELSE NoResult

\* C11: the listener goes idle, listening, closed; it handles at most one
\* request and records at most one result, that of the first request; once
\* closed, no later request, waiting or arriving, is handled or changes
\* the recorded result.
C11_SingleUseListener ==
    /\ [](cmd = "oauth" =>
            /\ flow.handled <= 1
            /\ (flow.listener = "idle") <=> (pc = "start")
            /\ (flow.listener = "listening") <=> (pc = "listen")
            /\ flow.listener = "listening" =>
                  flow.handled = 0 /\ flow.auth_result = NoResult
            /\ flow.listener = "closed" =>
                  flow.handled = 1 /\ flow.auth_result = ResultOfHandled)
    /\ [][flow.listener = "closed" =>
            /\ flow'.listener = "closed"
            /\ flow'.auth_result = flow.auth_result
            /\ flow'.request = flow.request
            /\ inbox' = inbox]_vars

\* a second callback with another code was waiting when the listener
\* closed, and the flow went on with the code of the first
C11_Witness ==
    /\ Handled
    /\ flow.listener = "closed"
    /\ flow.auth_result = [code |-> AuthCode]
    /\ inbox # <<>>
    /\ inbox[1].code = <<Tok("code", 2)>>
    /\ inbox[1].state = ExpectedState
    /\ pc = "exit"
    /\ flow.saved

\* the listener handled a GET request that has an error parameter
ErrorHandled ==
    /\ Handled
    /\ flow.request.method = "GET"
    /\ flow.request.error # <<>>

\* the result {error, description} of the handled request
ErrorResultOfRequest ==
    [error |-> flow.request.error,
     error_description |->
         ParamOr(flow.request.error_description, Txt("No details"))]

\* C12 as claimed: every request with an error parameter is answered 400
\* and recorded as {error, description}, with or without a code parameter.
C12_ErrorAlwaysRecorded ==
    ErrorHandled =>
        /\ flow.status = 400
        /\ flow.auth_result = ErrorResultOfRequest

\* C12, amended: a request with an error parameter and no code parameter
\* is answered 400 and recorded as {error, description}; when the request
\* also has a code parameter the error parameter is not read: it is
\* answered 200 and recorded as {code} if its state is the expected one,
\* and 400 state_mismatch otherwise.
C12_ErrorRecordedWithoutCode ==
    ErrorHandled =>
        /\ flow.request.code = <<>> =>
              /\ flow.status = 400
              /\ flow.auth_result = ErrorResultOfRequest
        /\ (flow.request.code # <<>>
              /\ flow.request.state = flow.expected_state) =>
              /\ flow.status = 200
              /\ flow.auth_result = [code |-> flow.request.code]
        /\ (flow.request.code # <<>>
              /\ flow.request.state # flow.expected_state) =>
              /\ flow.status = 400
              /\ flow.auth_result = StateMismatchResult

\* a denial with a description and no code was handled and recorded
C12_Witness ==
    /\ ErrorHandled
    /\ flow.request.code = <<>>
    /\ flow.request.error_description # <<>>
    /\ flow.status = 400
    /\ flow.auth_result = ErrorResultOfRequest
    /\ pc = "closed"

\* the listener handled a callback with error=access_denied
DenialHandled ==
    ErrorHandled /\ flow.request.error = Txt("access_denied")

\* the flow stopped with the error of the callback: nothing was sent,
\* nothing was saved, and at its end the process has reported the error
\* and exited non-zero
FlowStoppedByDenial ==
    /\ pc \in {"closed", "exit"}
    /\ net = <<>>
    /\ ~flow.saved
    /\ pc = "exit" =>
          /\ exitCode # 0
          /\ flow.reported.error = Txt("access_denied")

\* C13 as claimed: whenever the callback has error=access_denied the flow
\* reports the denial, exits non-zero and attempts no token exchange, no
\* profile fetch and no write of the settings file.
C13_DenialAlwaysStopsFlow == DenialHandled => FlowStoppedByDenial

\* C13, amended: the same for a callback with error=access_denied and no
\* code parameter; the error reported is the callback's error text,
\* access_denied, with its description.
C13_DenialStopsFlow ==
    (DenialHandled /\ flow.request.code = <<>>) =>
        /\ FlowStoppedByDenial
        /\ pc = "exit" =>
              flow.reported.error_description
                  = ParamOr(flow.request.error_description,
                            Txt("No details"))

\* a flow ended by a denial that had the expected state
C13_Witness ==
    /\ DenialHandled
    /\ flow.request.code = <<>>
    /\ flow.request.state = ExpectedState
    /\ pc = "exit"
    /\ exitCode = 1
    /\ flow.reported.error = Txt("access_denied")
    /\ net = <<>>

\* C14: the authorization flow always ends its wait: on every run of a
\* flow, whether or not a request arrives, the listener is eventually
\* closed.
C14_ListenerEventuallyClosed ==
    (cmd = "oauth") ~> (flow.listener = "closed")

\* a request is a callback: a GET of the callback path
IsCallback(req) == req.method = "GET" /\ req.path = "/callback"

\* C15: the one request the listener uses up is a GET of /callback: a
\* request to another path, or one that is not a GET, is not handled as
\* the flow's request and records no result, so that a callback waiting
\* behind it is not left unhandled by a closed listener.
C15_OnlyCallbackConsumes ==
    Handled =>
        /\ IsCallback(flow.request)
        /\ \A i \in 1..Len(inbox) :
              (IsCallback(inbox[i]) /\ inbox[i].code # <<>>
                  /\ inbox[i].state = flow.expected_state)
              => IsCallback(flow.request)

----------------------------------------------------------------------------
(* Validation and loading *)

\* the errors of the local checks of a command
ValidationErrors ==
    {"too_many_images", "file_too_large", "file_not_found",
     "text_file_not_found"}

\* C16: a run that ends in a validation error (too many images, a media
\* file over 5 MiB, a missing media or text file) has sent no request: not
\* to the token endpoint, not to the upload endpoint, not to the post
\* endpoint.
C16_ValidationBeforeNetwork ==
    (pc = "exit" /\ err \in ValidationErrors) => net = <<>>

\* the errors that end a post-image command before its count check
ErrorsBeforeCount ==
    {"not_found", "invalid_format", "missing_key", "no_refresh_token",
     "token_refresh_failed", "text_file_not_found"}

\* C17: a post-image command with more than 4 image paths never sends an
\* upload or create-post request, whatever its image files are, and ends
\* with a non-zero exit code: with the error of the count check, unless
\* the settings, the refresh or the text file stopped it before that
\* check; with 1 to 4 paths the count check does not fail.
C17_ImageCountChecked ==
    cmd = "post-image" =>
        /\ Len(args.images) > MaxImages =>
              /\ ApiCalls = {}
              /\ uploaded = 0
              /\ pc \notin {"upload", "post"}
              /\ pc = "exit" =>
                    /\ exitCode # 0
                    /\ err \in {"too_many_images"} \cup ErrorsBeforeCount
        /\ Len(args.images) \in 1..MaxImages => err # "too_many_images"

\* five paths, the first a missing file: stopped by the count check
C17_Witness ==
    /\ cmd = "post-image"
    /\ Len(args.images) = MaxImages + 1
    /\ args.images[1] = MissingFile
    /\ pc = "exit"
    /\ exitCode = 1
    /\ err = "too_many_images"
    /\ ApiCalls = {}

\* the errors load_settings exits with
LoadErrors == {"not_found", "invalid_format", "missing_key"}

\* the settings file is there, begins with "---", and its metadata block
\* gives access_token, client_id and client_secret a non-empty value
Configured ==
    /\ fileExists
    /\ StartsWith(store, <<DELIM>>)
    /\ LET d == ParseSettings(store)
       IN  \A key \in {AccessKey, K("client_id"), K("client_secret")} :
               key \in DOMAIN d /\ d[key] # <<>>

\* C18: load_settings ends the process with a non-zero exit code when the
\* settings file is absent or lacks a non-empty access_token, client_id or
\* client_secret, and then no token request and no API request is ever
\* sent; when the three are there, load_settings succeeds and returns
\* them.
C18_LoadFailsIffNotConfigured ==
    (cmd # "oauth" /\ pc # "load") =>
        /\ (pc = "exit" /\ err \in LoadErrors) =>
              /\ ~Configured
              /\ exitCode # 0
              /\ net = <<>>
              /\ settings = EmptyDict
              /\ hist = NoHist
        /\ err \notin LoadErrors =>
              /\ \A key \in {AccessKey, K("client_id"), K("client_secret")} :
                    key \in DOMAIN settings /\ settings[key] # <<>>
              /\ pc \in {"ensure", "refresh", "check_auth"} =>
                    Configured /\ settings = ParseSettings(store)
        /\ ~fileExists => (pc = "exit" /\ err = "not_found")

\* a file without client_secret was rejected
C18_Witness ==
    /\ cmd = "post-text"
    /\ pc = "exit"
    /\ exitCode = 1
    /\ err = "missing_key"
    /\ fileExists
    /\ K("client_secret") \notin DOMAIN ParseSettings(store)
    /\ ParseSettings(store)[AccessKey] # <<>>
    /\ net = <<>>

----------------------------------------------------------------------------
(* The settings file under crashes and other writers *)

\* C19: when the process is killed during the write of the settings file
\* (in a refresh or in the save of the authorization flow) and nobody else
\* wrote the file, the file holds either all of its previous text or all
\* of the new text.
C19_WriteIsAtomic ==
    (err = "killed" /\ local.others = 0) =>
        \/ store = hist.store
        \/ store = local.pending

\* C20: when another process rewrote the settings file, with a new
\* username, at some point between load_settings and the write of the
\* command's refresh, the file holds that username after the refresh has
\* written it.
C20_OtherWriterKept ==
    (Refreshed /\ hist.wrote /\ local.others > 0
        /\ K("username") \in DOMAIN ParseSettings(hist.store)) =>
        Entry(ParseSettings(store), K("username")) = <<TRUE, OtherUsername>>

----------------------------------------------------------------------------
(* The authorization flow from the callback to the credential store *)

\* the flow is at, or past, the token exchange
ExchangeReached ==
    /\ cmd = "oauth"
    /\ \/ pc \in {"exchange", "profile", "save"}
       \/ Calls("token") # {}

\* the one request the listener handled is a GET with a code and the
\* state of this flow, and that code is the recorded result
CodeRecorded ==
    /\ flow.handled = 1
    /\ flow.request # EmptyDict
    /\ flow.request.method = "GET"
    /\ flow.request.code # <<>>
    /\ flow.request.state = flow.expected_state
    /\ flow.expected_state = ExpectedState
    /\ flow.status = 200
    /\ flow.auth_result = [code |-> flow.request.code]

\* C21: in the authorization flow the token exchange is attempted only
\* after the listener recorded the code of a request whose state equals
\* the flow's expected_state; there is one exchange at most, and the code
\* and the code_verifier it sends are the code of that request and the
\* verifier generated for this flow. No token is exchanged for a code that
\* came with a missing or a different state.
C21_ExchangeOnlyForCheckedCode ==
    ExchangeReached =>
        /\ CodeRecorded
        /\ Cardinality(Calls("token")) <= 1
        /\ \A i \in Calls("token") :
              /\ net[i].cred = flow.request.code
              /\ net[i].aux = flow.code_verifier
              /\ net[i].aux = CodeVerifier

\* the token endpoint was asked for the code of the callback
C21_Witness ==
    /\ cmd = "oauth"
    /\ Calls("token") # {}
    /\ net[1].cred = AuthCode
    /\ net[1].aux = CodeVerifier
    /\ flow.request.state = ExpectedState
    /\ flow.request.path = "/callback"

\* the flow got a token for the recorded code and then the profile of
\* that token, both answered successfully and in this order, and asked
\* for nothing else
ExchangedThenFetched ==
    /\ Len(net) = 2
    /\ net[1] = Request("token", flow.auth_result.code,
                        flow.code_verifier, TRUE)
    /\ net[2] = Request("profile", flow.token_data.access_token, <<>>, TRUE)

\* the listener, the token exchange or the profile fetch failed
FlowFailed ==
    /\ cmd = "oauth"
    /\ err \in {"no_response", "authorization_failed",
                "token_exchange_failed", "profile_fetch_failed"}

\* this step writes the settings file
StoreWritten ==
    \/ store' # store
    \/ fileExists' # fileExists
    \/ flow'.saved # flow.saved

\* C22: the authorization flow writes the credential store at most once,
\* and only after the listener succeeded, the token exchange succeeded and
\* the profile fetch succeeded, in that order; a flow in which the
\* listener, the exchange or the fetch failed has written nothing, so the
\* store is as it was before the flow started.
C22_StoreWrittenOnceAfterSuccess ==
    /\ [](cmd = "oauth" =>
            /\ flow.saved =>
                  CodeRecorded /\ ExchangedThenFetched /\ exitCode = 0
            /\ FlowFailed => ~flow.saved /\ hist.store = NoHist.store)
    /\ [][(cmd = "oauth" /\ StoreWritten) =>
            /\ ~flow.saved
            /\ flow'.saved
            /\ exitCode = 0
            /\ CodeRecorded
            /\ ExchangedThenFetched
            /\ net' = net]_vars

\* the flow replaced a stored credential set after its three successes
C22_Witness ==
    /\ cmd = "oauth"
    /\ flow.saved
    /\ pc = "exit"
    /\ exitCode = 0
    /\ hist.store = ExpiredFile
    /\ store # ExpiredFile
    /\ Get(ParseSettings(store), AccessKey, <<>>)
          = flow.token_data.access_token

=============================================================================
